---- MODULE Spec2Model ----
(***************************************************************************)
(* Skeleton-to-stroke pipeline: the multigraph kept by GraphBuilder, the   *)
(* Eulerian transformer (EulerianPathFinder), the AngularWalker and the    *)
(* PathGenerator facade, as state machines over a networkx MultiGraph.     *)
(*                                                                         *)
(* A MultiGraph is a record [nodes, edges]: nodes is the node dictionary   *)
(* in insertion order, edges is the sequence of edge insertions that are   *)
(* still present.  networkx keeps no orientation for an undirected edge,   *)
(* so an edge record stores its endpoints normalised (a <= b); the         *)
(* adjacency dictionaries (and their iteration order) are derived from     *)
(* the insertion sequence.  A node is a pixel position <<y, x>>.           *)
(*                                                                         *)
(* A direction vector that the code keeps normalised is kept here as the   *)
(* integer vector it was normalised from; a score (a dot product of two    *)
(* normalised vectors) is the pair [n, d] standing for n / sqrt(d), and is *)
(* compared exactly.                                                       *)
(***************************************************************************)
EXTENDS Integers, Sequences, FiniteSets, TLC

\* Largest number of add_edge calls that build an initial graph.
MaxEdges == 4

\* Lookahead of get_path_tangent (num_points=5).
NumPoints == 5

\* Pixel positions the initial graphs take their nodes from.
Positions == {<<0, 0>>, <<0, 1>>, <<1, 1>>}

VARIABLES
    pc,             \* control position of the operation in progress
    err,            \* exception that left the operation, "none" if none
    graph,          \* the graph of the GraphBuilder / PathGenerator / AngularWalker
    visited_edges,  \* AngularWalker.visited_edges
    num_edges,      \* AngularWalker.num_edges
    tour,           \* find_path: tour
    path,           \* _greedy_walk: path
    curr,           \* _greedy_walk: curr
    curr_vec,       \* _greedy_walk: curr_vec (<<>> is None)
    ret,            \* which call of _greedy_walk is running: "initial" or "sub"
    splice_idx,     \* find_path: splice_idx
    full_pixels,    \* find_path: full_pixels (the value returned)
    entry,          \* the operation that was called
    heap,           \* the graph objects of the transformer run, by reference
    finder,         \* EulerianPathFinder.graph: a reference into heap (0: not built)
    last,           \* the last call on the EulerianPathFinder and what it returned
    distance_threshold, \* merge_close_nodes: distance_threshold, in tenths of a pixel
    min_path_length,    \* prune_graph: min_path_length
    changed,        \* prune_graph: changed
    nodes,          \* prune_graph: nodes, the list copied at line 128
    node_idx,       \* prune_graph: position of the for loop in nodes
    skeleton,       \* GraphBuilder.skeleton: the set of foreground pixels of the mask
    all_nodes,      \* build_graph: all_nodes in the order the set is iterated
    visited_pixels, \* build_graph: visited_pixels
    trace_idx,      \* build_graph: position of "for node in all_nodes" (line 48)
    again,          \* a further traversal was started on the same AngularWalker
    first_pixels    \* what the first find_path on the walker returned

walkerVars == <<visited_edges, num_edges, tour, path, curr, curr_vec, ret,
                splice_idx, full_pixels>>

eulerVars == <<heap, finder, last>>

builderVars == <<distance_threshold, min_path_length, changed, nodes, node_idx>>

buildVars == <<skeleton, all_nodes, visited_pixels, trace_idx>>

callVars == <<again, first_pixels>>

vars == <<pc, err, graph, entry, walkerVars, eulerVars, builderVars, buildVars, callVars>>

-----------------------------------------------------------------------------
(* Small helpers *)

Min(a, b) == IF a < b THEN a ELSE b

Reverse(s) == [i \in 1..Len(s) |-> s[Len(s) + 1 - i]]

\* Python tuple comparison u > v on positions.
TupleGT(u, v) == u[1] > v[1] \/ (u[1] = v[1] /\ u[2] > v[2])

SeqToSet(s) == {s[i] : i \in 1..Len(s)}

\* The elements of s in order of first occurrence (a dict's key order).
Dedup(s) ==
    LET F[i \in 0..Len(s)] ==
            IF i = 0 THEN <<>>
            ELSE IF \E j \in 1..(i - 1) : s[j] = s[i] THEN F[i - 1]
                 ELSE Append(F[i - 1], s[i])
    IN  F[Len(s)]

\* The concatenation of the sequences in the sequence ss.
Flatten(ss) ==
    LET F[i \in 0..Len(ss)] == IF i = 0 THEN <<>> ELSE F[i - 1] \o ss[i]
    IN  F[Len(ss)]

-----------------------------------------------------------------------------
(* networkx.MultiGraph *)

EmptyGraph == [nodes |-> <<>>, edges |-> <<>>]

NoPath == <<>>

Incident(e, n) == e.a = n \/ e.b = n

Other(e, n) == IF e.a = n THEN e.b ELSE e.a

HasNode(g, n) == n \in SeqToSet(g.nodes)

\* The edges with an end at n, in insertion order.
IncSeq(g, n) == SelectSeq(g.edges, LAMBDA e : Incident(e, n))

\* G[n]: the neighbours of n in the order of G.adj[n].
Adj(g, n) ==
    LET inc == IncSeq(g, n)
    IN  Dedup([i \in 1..Len(inc) |-> Other(inc[i], n)])

\* G[n][nbr]: the key dictionary of the pair, as the sequence of its edges.
KeyDict(g, n, nbr) == SelectSeq(g.edges, LAMBDA e : {e.a, e.b} = {n, nbr})

\* MultiGraph.new_edge_key
NewEdgeKey(g, u, v) ==
    LET kd == KeyDict(g, u, v)
        used == {kd[i].key : i \in 1..Len(kd)}
    IN  CHOOSE k \in Len(kd)..(2 * Len(kd)) :
            /\ k \notin used
            /\ \A j \in Len(kd)..(k - 1) : j \in used

\* MultiGraph.add_node
AddNode(g, n) ==
    IF HasNode(g, n) THEN g ELSE [g EXCEPT !.nodes = Append(g.nodes, n)]

\* MultiGraph.add_edge(u, v, **data) with key=None
AddEdge(g, u, v, data) ==
    LET g2 == AddNode(AddNode(g, u), v)
        e  == [a    |-> IF TupleGT(u, v) THEN v ELSE u,
               b    |-> IF TupleGT(u, v) THEN u ELSE v,
               key  |-> NewEdgeKey(g, u, v),
               data |-> data]
    IN  [g2 EXCEPT !.edges = Append(g2.edges, e)]

\* MultiGraph.remove_node
RemoveNode(g, n) ==
    [nodes |-> SelectSeq(g.nodes, LAMBDA m : m # n),
     edges |-> SelectSeq(g.edges, LAMBDA e : ~Incident(e, n))]

\* G.degree(n): a self-loop counts twice.
Degree(g, n) == Len(IncSeq(g, n)) + Len(KeyDict(g, n, n))

\* G.edges(keys=True, data=True): for each node in node order, for each
\* neighbour not yet seen as a node, each key; reported as (node, neighbour).
EdgesIter(g) ==
    LET PerNode(i) ==
            LET n   == g.nodes[i]
                adj == Adj(g, n)
                Per(j) ==
                    IF \E k \in 1..(i - 1) : g.nodes[k] = adj[j] THEN <<>>
                    ELSE LET kd == KeyDict(g, n, adj[j])
                         IN  [x \in 1..Len(kd) |->
                                 [u |-> n, v |-> adj[j], key |-> kd[x].key,
                                  data |-> kd[x].data]]
            IN  Flatten([j \in 1..Len(adj) |-> Per(j)])
    IN  Flatten([i \in 1..Len(g.nodes) |-> PerNode(i)])

\* len(G.edges())
NumEdges(g) == Len(EdgesIter(g))

\* The nodes reached from the set S along edges.
RECURSIVE Reach(_, _)
Reach(g, S) ==
    LET T == S \cup {Other(g.edges[i], m) :
                        <<i, m>> \in {x \in (1..Len(g.edges)) \X S :
                                         Incident(g.edges[x[1]], x[2])}}
    IN  IF T = S THEN S ELSE Reach(g, T)

\* nx.is_connected: "raise" is NetworkXPointlessConcept on the null graph.
IsConnected(g) ==
    IF Len(g.nodes) = 0 THEN "raise"
    ELSE IF Reach(g, {g.nodes[1]}) = SeqToSet(g.nodes) THEN "true" ELSE "false"

\* The number of nodes of odd degree, as nx sums it over G.degree().
OddDegreeSum(g) == Cardinality({i \in 1..Len(g.nodes) : Degree(g, g.nodes[i]) % 2 = 1})

\* nx.is_eulerian (undirected): all(d % 2 == 0 ...) and nx.is_connected(G)
IsEulerian(g) ==
    IF OddDegreeSum(g) # 0 THEN "false" ELSE IsConnected(g)

\* nx.has_eulerian_path (undirected, source=None)
HasEulerianPath(g) ==
    IF IsEulerian(g) # "false" THEN IsEulerian(g)
    ELSE IF OddDegreeSum(g) # 2 THEN "false" ELSE IsConnected(g)

\* nx.is_semieulerian: has_eulerian_path(G) and not is_eulerian(G)
IsSemiEulerian(g) ==
    IF HasEulerianPath(g) # "true" THEN HasEulerianPath(g)
    ELSE IF IsEulerian(g) = "raise" THEN "raise"
    ELSE IF IsEulerian(g) = "true" THEN "false" ELSE "true"

-----------------------------------------------------------------------------
(* geometry_utils *)

ZeroVec == <<0, 0>>

Sub(p, q) == <<p[1] - q[1], p[2] - q[2]>>

Neg(v) == <<0 - v[1], 0 - v[2]>>

Dot(v, w) == v[1] * w[1] + v[2] * w[2]

\* get_path_tangent(path_pixels, from_start=True): the direction that the
\* code normalises, ZeroVec when it returns the zero vector.
get_path_tangent(path_pixels) ==
    IF Len(path_pixels) < 2 THEN ZeroVec
    ELSE LET idx == Min(Len(path_pixels) - 1, NumPoints)
         IN  Sub(path_pixels[idx + 1], path_pixels[1])

\* calculate_angle_score on two normalised vectors: n / sqrt(d).
calculate_angle_score(vec1, vec2) ==
    IF vec1 = ZeroVec \/ vec2 = ZeroVec THEN [n |-> 0, d |-> 1]
    ELSE [n |-> Dot(vec1, vec2), d |-> Dot(vec1, vec1) * Dot(vec2, vec2)]

\* s > t for scores n / sqrt(d).
ScoreGT(s, t) ==
    IF s.n >= 0 /\ t.n < 0 THEN TRUE
    ELSE IF s.n < 0 /\ t.n >= 0 THEN FALSE
    ELSE IF s.n >= 0 THEN s.n * s.n * t.d > t.n * t.n * s.d
    ELSE s.n * s.n * t.d < t.n * t.n * s.d

-----------------------------------------------------------------------------
(* AngularWalker *)

None == <<>>

\* AngularWalker._is_visited
_is_visited(visited, u, v, key) ==
    IF TupleGT(u, v) THEN <<v, u, key>> \in visited ELSE <<u, v, key>> \in visited

\* _mark_visited without the swap of u and v.
mark_visited_unordered(visited, u, v, key) == visited \cup {<<u, v, key>>}

\* AngularWalker._mark_visited: the set after the call.
_mark_visited(visited, u, v, key) ==
    IF TupleGT(u, v) THEN visited \cup {<<v, u, key>>} ELSE visited \cup {<<u, v, key>>}

\* The unvisited (nbr, key, data) of u in the order the nested loops over
\* graph[u] and graph[u][nbr] enumerate them.
UnvisitedOptions(g, visited, u) ==
    LET adj == Adj(g, u)
        Per(j) ==
            LET kd   == KeyDict(g, u, adj[j])
                free == SelectSeq(kd, LAMBDA e : ~_is_visited(visited, u, adj[j], e.key))
            IN  [x \in 1..Len(free) |->
                    [nbr |-> adj[j], key |-> free[x].key, data |-> free[x].data]]
    IN  Flatten([j \in 1..Len(adj) |-> Per(j)])

\* AngularWalker._has_unused_edges
_has_unused_edges(g, visited, u) ==
    IF ~HasNode(g, u) THEN FALSE ELSE Len(UnvisitedOptions(g, visited, u)) > 0

\* _greedy_walk, "Orient pixels U -> V": the chain reversed when its last
\* pixel is strictly nearer to the current node than its first.
OrientPixels(raw_pixels, u) ==
    LET d1 == Dot(Sub(raw_pixels[1], u), Sub(raw_pixels[1], u))
        d2 == Dot(Sub(raw_pixels[Len(raw_pixels)], u), Sub(raw_pixels[Len(raw_pixels)], u))
    IN  IF d2 < d1 THEN Reverse(raw_pixels) ELSE raw_pixels

\* best_score = -2.0 before the first candidate.
InitialBest ==
    [score |-> [n |-> -2, d |-> 1], option |-> 0, pixels |-> <<>>, out_vec |-> ZeroVec]

\* The choice that replaces the best on an equal score as well.
ChooseBestLast(options, u, vec) ==
    LET F[i \in 0..Len(options)] ==
            IF i = 0 THEN InitialBest
            ELSE LET o       == options[i]
                     raw     == IF o.data.path = NoPath THEN <<u, o.nbr>> ELSE o.data.path
                     pixels  == OrientPixels(raw, u)
                     out_vec == get_path_tangent(pixels)
                     score   == IF vec # None THEN calculate_angle_score(vec, out_vec)
                                ELSE [n |-> 0, d |-> 1]
                     best    == F[i - 1]
                 IN  IF ~ScoreGT(best.score, score)
                     THEN [score |-> score, option |-> i, pixels |-> pixels,
                           out_vec |-> out_vec]
                     ELSE best
    IN  F[Len(options)]

\* _greedy_walk, "Choose best option": the loop over options; option is the
\* index in options of best_option (0 is None).
ChooseBest(options, u, vec) ==
    LET F[i \in 0..Len(options)] ==
            IF i = 0 THEN InitialBest
            ELSE LET o       == options[i]
                     raw     == IF o.data.path = NoPath THEN <<u, o.nbr>> ELSE o.data.path
                     pixels  == OrientPixels(raw, u)
                     out_vec == get_path_tangent(pixels)
                     score   == IF vec # None THEN calculate_angle_score(vec, out_vec)
                                ELSE [n |-> 0, d |-> 1]
                     best    == F[i - 1]
                 IN  IF ScoreGT(score, best.score)
                     THEN [score |-> score, option |-> i, pixels |-> pixels,
                           out_vec |-> out_vec]
                     ELSE best
    IN  F[Len(options)]

\* The start node taken as the first node whatever the degrees.
StartNodeFirst(g) == g.nodes[1]

\* find_path, "Identify Start Node"
StartNode(g) ==
    LET odd_nodes == SelectSeq(g.nodes, LAMBDA v : Degree(g, v) % 2 = 1)
    IN  IF Len(odd_nodes) > 0 THEN odd_nodes[1] ELSE g.nodes[1]

\* find_path: candidates = [seg[0] for seg in tour] + [tour[-1][1]]
Candidates(t) == [i \in 1..(Len(t) + 1) |-> IF i <= Len(t) THEN t[i].u ELSE t[Len(t)].v]

\* The splice placed one segment too late.
SpliceAfter(t, idx, sub_tour) ==
    IF idx + 1 >= Len(t) THEN t \o sub_tour
    ELSE SubSeq(t, 1, idx + 1) \o sub_tour \o SubSeq(t, idx + 2, Len(t))

\* find_path, "Splice": idx is the 0-based splice_idx.
Splice(t, idx, sub_tour) ==
    IF idx >= Len(t) THEN t \o sub_tour
    ELSE SubSeq(t, 1, idx) \o sub_tour \o SubSeq(t, idx + 1, Len(t))

\* find_path, "Convert tour to pixel list"
TourPixels(t) ==
    LET F[i \in 0..Len(t)] ==
            IF i = 0 THEN <<>>
            ELSE IF i = 1 THEN t[1].pixels
            ELSE LET full == F[i - 1]
                 IN  IF full[Len(full)] = t[i].pixels[1]
                     THEN full \o Tail(t[i].pixels)
                     ELSE full \o t[i].pixels
    IN  F[Len(t)]

\* AngularWalker(graph).find_path() up to the first call of _greedy_walk.
\* list(nodes)[0] raises IndexError on a graph without nodes.
BeginFindPath ==
    /\ visited_edges' = {}
    /\ num_edges' = NumEdges(graph)
    /\ tour' = <<>>
    /\ path' = <<>>
    /\ curr_vec' = None
    /\ ret' = "initial"
    /\ splice_idx' = -1
    /\ full_pixels' = <<>>
    /\ IF Len(graph.nodes) = 0
       THEN /\ pc' = "raised"
            /\ err' = "IndexError"
            /\ curr' = None
       ELSE /\ pc' = "walk"
            /\ err' = "none"
            /\ curr' = StartNode(graph)

\* walker = AngularWalker(G); walker.find_path()
FindPath ==
    /\ pc = "idle"
    /\ UNCHANGED <<eulerVars, builderVars, buildVars, callVars>>
    /\ entry' = "find_path"
    /\ BeginFindPath
    /\ UNCHANGED graph

\* The test with the connectivity left out: the parity test alone.
parity_only(g) ==
    IF OddDegreeSum(g) \in {0, 2} THEN "false" ELSE "true"

\* generate_path line 15: not nx.is_eulerian(G) and not nx.is_semieulerian(G)
not_traversable(g) ==
    IF IsEulerian(g) = "raise" THEN "raise"
    ELSE IF IsEulerian(g) = "true" THEN "false"
    ELSE IF IsSemiEulerian(g) = "raise" THEN "raise"
    ELSE IF IsSemiEulerian(g) = "true" THEN "false" ELSE "true"

\* PathGenerator.generate_path
GeneratePath ==
    /\ pc = "idle"
    /\ UNCHANGED <<eulerVars, builderVars, buildVars, callVars>>
    /\ entry' = "generate_path"
    /\ UNCHANGED graph
    /\ IF not_traversable(graph) = "raise"
       THEN /\ pc' = "raised"
            /\ err' = "NetworkXPointlessConcept"
            /\ UNCHANGED walkerVars
       ELSE IF not_traversable(graph) = "true"
       THEN /\ pc' = "raised"
            /\ err' = "ValueError"
            /\ UNCHANGED walkerVars
       ELSE BeginFindPath

\* _greedy_walk: one iteration of "while True" that commits an edge.
GreedyStep ==
    /\ pc = "walk"
    /\ UNCHANGED <<eulerVars, builderVars, buildVars, callVars>>
    /\ HasNode(graph, curr)
    /\ LET options == UnvisitedOptions(graph, visited_edges, curr)
           best    == ChooseBest(options, curr, curr_vec)
       IN  /\ Len(options) > 0
           /\ LET next_node == options[best.option].nbr
                  best_key  == options[best.option].key
              IN  /\ visited_edges' = _mark_visited(visited_edges, curr, next_node, best_key)
                  /\ path' = Append(path, [u |-> curr, v |-> next_node, key |-> best_key,
                                           pixels |-> best.pixels])
                  /\ curr' = next_node
                  /\ curr_vec' = Neg(get_path_tangent(Reverse(best.pixels)))
    /\ UNCHANGED <<pc, err, graph, entry, num_edges, tour, ret, splice_idx, full_pixels>>

\* _greedy_walk leaves its loop and returns path: to find_path, which keeps
\* it as the tour (line 28) or splices it in (lines 58-68), or to the caller
\* of a direct call (pc "returned", the value returned is path).
GreedyReturn ==
    /\ pc = "walk"
    /\ UNCHANGED <<eulerVars, builderVars, buildVars, callVars>>
    /\ ~HasNode(graph, curr) \/ Len(UnvisitedOptions(graph, visited_edges, curr)) = 0
    /\ IF ret = "initial"
       THEN /\ tour' = path
            /\ pc' = "splice"
       ELSE IF ret = "direct"
       THEN /\ tour' = tour
            /\ pc' = "returned"
       ELSE IF Len(path) = 0
       THEN /\ tour' = tour
            /\ pc' = "assemble"
       ELSE /\ tour' = Splice(tour, splice_idx, path)
            /\ pc' = "splice"
    /\ UNCHANGED <<err, graph, entry, visited_edges, num_edges, path, curr, curr_vec, ret,
                   splice_idx, full_pixels>>

\* find_path: the test of the while loop at line 32 and the search for a
\* node of the tour with unused edges; tour[-1] raises IndexError on an
\* empty tour.
SpliceSearch ==
    /\ pc = "splice"
    /\ UNCHANGED <<eulerVars, builderVars, buildVars, callVars>>
    /\ IF Cardinality(visited_edges) < num_edges
       THEN IF Len(tour) = 0
            THEN /\ pc' = "raised"
                 /\ err' = "IndexError"
                 /\ UNCHANGED <<path, curr, curr_vec, ret, splice_idx>>
            ELSE LET candidates == Candidates(tour)
                     hits == {i \in 1..Len(candidates) :
                                 _has_unused_edges(graph, visited_edges, candidates[i])}
                 IN  IF hits = {}
                     THEN /\ pc' = "assemble"
                          /\ err' = err
                          /\ UNCHANGED <<path, curr, curr_vec, ret, splice_idx>>
                     ELSE LET i == CHOOSE i \in hits : \A j \in hits : i <= j
                          IN  /\ splice_idx' = i - 1
                              /\ curr' = candidates[i]
                              /\ curr_vec' = None
                              /\ path' = <<>>
                              /\ ret' = "sub"
                              /\ pc' = "walk"
                              /\ err' = err
       ELSE /\ pc' = "assemble"
            /\ err' = err
            /\ UNCHANGED <<path, curr, curr_vec, ret, splice_idx>>
    /\ UNCHANGED <<graph, entry, visited_edges, num_edges, tour, full_pixels>>

\* find_path: the pixel list is assembled and returned.
Assemble ==
    /\ pc = "assemble"
    /\ UNCHANGED <<eulerVars, builderVars, buildVars, callVars>>
    /\ full_pixels' = TourPixels(tour)
    /\ pc' = "done"
    /\ UNCHANGED <<err, graph, entry, visited_edges, num_edges, tour, path, curr, curr_vec,
                   ret, splice_idx>>

\* A second walker.find_path() on the walker whose find_path has returned:
\* __init__ is not run again, so visited_edges and num_edges are kept.
FindPathAgain ==
    /\ pc = "done"
    /\ ~again
    /\ again' = TRUE
    /\ first_pixels' = full_pixels
    /\ tour' = <<>>
    /\ path' = <<>>
    /\ curr' = StartNode(graph)
    /\ curr_vec' = None
    /\ ret' = "initial"
    /\ splice_idx' = -1
    /\ full_pixels' = <<>>
    /\ pc' = "walk"
    /\ UNCHANGED <<err, graph, entry, visited_edges, num_edges, eulerVars, builderVars,
                   buildVars>>

\* The incoming_vector arguments of a direct call of _greedy_walk.
IncomingVectors == {None, <<1, 1>>}

\* walker._greedy_walk(start_node, incoming_vector) on the walker whose
\* find_path has returned, from a node that has incident edges.
GreedyWalkCall ==
    /\ pc = "done"
    /\ ~again
    /\ again' = TRUE
    /\ first_pixels' = full_pixels
    /\ \E i \in 1..Len(graph.nodes), incoming_vector \in IncomingVectors :
          /\ Degree(graph, graph.nodes[i]) > 0
          /\ curr' = graph.nodes[i]
          /\ curr_vec' = incoming_vector
    /\ path' = <<>>
    /\ ret' = "direct"
    /\ pc' = "walk"
    /\ UNCHANGED <<err, graph, entry, visited_edges, num_edges, tour, splice_idx,
                   full_pixels, eulerVars, builderVars, buildVars>>

-----------------------------------------------------------------------------
(* EulerianPathFinder *)

\* self.graph = graph: the caller's object itself.
no_copy(h, r) == [heap |-> h, ref |-> r]

\* copy.deepcopy(graph): a new object with the same contents; the heap
\* after the call and the reference to the copy.
deepcopy(h, r) == [heap |-> Append(h, h[r]), ref |-> Len(h) + 1]

\* EulerianPathFinder.count_odd_nodes
count_odd_nodes(g) ==
    LET odd_nodes == SelectSeq(g.nodes, LAMBDA v : Degree(g, v) % 2 = 1)
    IN  [count |-> Len(odd_nodes), odd_nodes |-> odd_nodes]

\* analyze with the 'path' case taken for one odd node.
analyze_one_odd(g) ==
    LET count == count_odd_nodes(g).count
    IN  IF count = 0 THEN "circuit"
        ELSE IF count = 1 THEN "path"
        ELSE "non-eulerian"

\* EulerianPathFinder.analyze
analyze(g) ==
    LET count == count_odd_nodes(g).count
    IN  IF count = 0 THEN "circuit"
        ELSE IF count = 2 THEN "path"
        ELSE "non-eulerian"

\* make_eulerian that ignores force_double_wall.
make_eulerian_unforced(g, force_double_wall) ==
    IF analyze(g) = "non-eulerian"
    THEN LET original_edges == EdgesIter(g)
             F[i \in 0..Len(original_edges)] ==
                 IF i = 0 THEN g
                 ELSE LET so_far == F[i - 1]
                      IN  IF Len(so_far.edges) < Len(g.edges) THEN so_far
                          ELSE AddEdge(so_far, original_edges[i].u, original_edges[i].v,
                                       [original_edges[i].data EXCEPT !.type = "double_wall"])
         IN  F[Len(original_edges)]
    ELSE g

\* EulerianPathFinder.make_eulerian: self.graph after the call.  The loop
\* over original_edges only adds edges (so_far never has fewer edges than g;
\* the test makes the graph so far be evaluated before the next add_edge).
make_eulerian(g, force_double_wall) ==
    IF analyze(g) = "non-eulerian" \/ force_double_wall
    THEN LET original_edges == EdgesIter(g)
             F[i \in 0..Len(original_edges)] ==
                 IF i = 0 THEN g
                 ELSE LET so_far == F[i - 1]
                      IN  IF Len(so_far.edges) < Len(g.edges) THEN so_far
                          ELSE AddEdge(so_far, original_edges[i].u, original_edges[i].v,
                                       [original_edges[i].data EXCEPT !.type = "double_wall"])
         IN  F[Len(original_edges)]
    ELSE g

\* finder = EulerianPathFinder(G), G being the object heap[1].
Construct ==
    /\ pc = "idle"
    /\ LET c == deepcopy(heap, 1)
       IN  /\ heap' = c.heap
           /\ finder' = c.ref
    /\ pc' = "finder"
    /\ entry' = "EulerianPathFinder"
    /\ last' = [op |-> "init"]
    /\ UNCHANGED <<err, graph, walkerVars, builderVars, buildVars, callVars>>

\* finder.count_odd_nodes()
CountOddNodes ==
    /\ pc = "finder"
    /\ last' = [op |-> "count_odd_nodes", result |-> count_odd_nodes(heap[finder])]
    /\ UNCHANGED <<pc, err, graph, entry, heap, finder, walkerVars, builderVars, buildVars, callVars>>

\* finder.analyze()
Analyze ==
    /\ pc = "finder"
    /\ last' = [op |-> "analyze", result |-> analyze(heap[finder])]
    /\ UNCHANGED <<pc, err, graph, entry, heap, finder, walkerVars, builderVars, buildVars, callVars>>

\* finder.make_eulerian(force_double_wall); a graph is doubled again only
\* while it has at most MaxEdges edges.
MakeEulerian ==
    /\ pc = "finder"
    /\ Len(heap[finder].edges) <= MaxEdges \/ last.op = "init"
    /\ \E force_double_wall \in BOOLEAN :
          /\ heap' = [heap EXCEPT ![finder] = make_eulerian(heap[finder], force_double_wall)]
          /\ last' = [op |-> "make_eulerian", force |-> force_double_wall,
                      before |-> heap[finder], result |-> finder]
    /\ UNCHANGED <<pc, err, graph, entry, finder, walkerVars, builderVars, buildVars, callVars>>

-----------------------------------------------------------------------------
(* GraphBuilder: merge_close_nodes and prune_graph *)

\* The normalised edge record of an edge reported as (u, v, key, data).
EdgeRecord(x) ==
    [a    |-> IF TupleGT(x.u, x.v) THEN x.v ELSE x.u,
     b    |-> IF TupleGT(x.u, x.v) THEN x.u ELSE x.v,
     key  |-> x.key,
     data |-> x.data]

\* MultiGraph.copy(): the nodes in order, the edges added again in the
\* order the adjacency is iterated, which is the order of G.edges().
GraphCopy(g) ==
    LET it == EdgesIter(g)
    IN  [nodes |-> g.nodes, edges |-> [i \in 1..Len(it) |-> EdgeRecord(it[i])]]

\* G.edges(v, data=True): every edge at v, reported as (v, neighbour, data).
EdgesAt(g, v) ==
    LET adj == Adj(g, v)
        Per(j) ==
            LET kd == KeyDict(g, v, adj[j])
            IN  [x \in 1..Len(kd) |-> [u |-> v, v |-> adj[j], data |-> kd[x].data]]
    IN  Flatten([j \in 1..Len(adj) |-> Per(j)])

\* nx.contracted_nodes(G, u, v, self_loops=False): the new graph H, or the
\* KeyError of H.nodes[u] when u is not a node of H after the edges of v
\* have been remapped.
contracted_nodes(g, u, v) ==
    LET edges_to_remap == EdgesAt(g, v)
        H0 == RemoveNode(GraphCopy(g), v)
        F[i \in 0..Len(edges_to_remap)] ==
            IF i = 0 THEN H0
            ELSE LET prev_w == edges_to_remap[i].u
                     prev_x == edges_to_remap[i].v
                     w == IF prev_w # v THEN prev_w ELSE u
                     x == IF prev_x # v THEN prev_x ELSE u
                 IN  IF {prev_w, prev_x} = {u, v} THEN F[i - 1]
                     ELSE AddEdge(F[i - 1], w, x, edges_to_remap[i].data)
        H == F[Len(edges_to_remap)]
    IN  IF HasNode(H, u) THEN [raised |-> FALSE, graph |-> H]
        ELSE [raised |-> TRUE, graph |-> g]

\* merge_close_nodes line 103-104: dist < distance_threshold, the threshold
\* in tenths of a pixel.
DistBelow(u, v, threshold) ==
    /\ threshold > 0
    /\ 100 * Dot(Sub(u, v), Sub(u, v)) < threshold * threshold

\* merge_close_nodes lines 100-108: the edges of the scan that are below
\* the threshold, in scan order; to_merge is the first of them.
CloseEdges(g, threshold) ==
    SelectSeq(EdgesIter(g), LAMBDA x : DistBelow(x.u, x.v, threshold))

\* MultiGraph.get_edge_data(u, v): the key dictionary of the pair, a
\* mapping from the edge keys (written as strings) to the data of the edges.
get_edge_data(g, u, v) ==
    LET kd == KeyDict(g, u, v)
    IN  [s \in {ToString(kd[i].key) : i \in 1..Len(kd)} |->
            kd[CHOOSE i \in 1..Len(kd) : ToString(kd[i].key) = s].data]

\* The values merge_close_nodes and prune_graph are called with.
Thresholds == {0, 12, 21}

MinPathLengths == {2, 5}

\* builder.merge_close_nodes(distance_threshold)
MergeCloseNodes ==
    /\ pc = "idle"
    /\ \E t \in Thresholds : distance_threshold' = t
    /\ pc' = "merge"
    /\ entry' = "merge_close_nodes"
    /\ UNCHANGED <<err, graph, walkerVars, eulerVars, buildVars, callVars, min_path_length, changed, nodes, node_idx>>

\* merge_close_nodes: an iteration of "while True" that finds an edge to
\* merge and contracts its nodes; a KeyError of contracted_nodes leaves the
\* method before self.graph is assigned.
MergeFuse ==
    /\ pc = "merge"
    /\ Len(CloseEdges(graph, distance_threshold)) > 0
    /\ LET to_merge == CloseEdges(graph, distance_threshold)[1]
           c == contracted_nodes(graph, to_merge.u, to_merge.v)
       IN  IF c.raised
           THEN /\ pc' = "raised"
                /\ err' = "KeyError"
                /\ graph' = graph
           ELSE /\ pc' = pc
                /\ err' = err
                /\ graph' = c.graph
    /\ UNCHANGED <<entry, walkerVars, eulerVars, builderVars, buildVars, callVars>>

\* merge_close_nodes: the iteration that finds nothing to merge and returns.
MergeReturn ==
    /\ pc = "merge"
    /\ Len(CloseEdges(graph, distance_threshold)) = 0
    /\ pc' = "merged"
    /\ UNCHANGED <<err, graph, entry, walkerVars, eulerVars, builderVars, buildVars, callVars>>

\* builder.prune_graph(min_path_length)
PruneGraph ==
    /\ pc = "idle"
    /\ \E m \in MinPathLengths : min_path_length' = m
    /\ changed' = TRUE
    /\ pc' = "prune_while"
    /\ entry' = "prune_graph"
    /\ UNCHANGED <<err, graph, walkerVars, eulerVars, buildVars, callVars, distance_threshold, nodes, node_idx>>

\* prune_graph: the test of "while changed" and the copy of the node list.
PruneWhile ==
    /\ pc = "prune_while"
    /\ IF changed
       THEN /\ changed' = FALSE
            /\ nodes' = graph.nodes
            /\ node_idx' = 1
            /\ pc' = "prune_for"
       ELSE /\ pc' = "pruned"
            /\ UNCHANGED <<changed, nodes, node_idx>>
    /\ UNCHANGED <<err, graph, entry, walkerVars, eulerVars, buildVars, callVars, distance_threshold, min_path_length>>

\* prune_graph: the body of "for node in nodes" for one node; a KeyError of
\* edge_data['weight'] is caught and the loop continues.
PruneNode ==
    /\ pc = "prune_for"
    /\ node_idx <= Len(nodes)
    /\ LET node == nodes[node_idx]
       IN  IF HasNode(graph, node) /\ Degree(graph, node) = 1
           THEN LET neighbor  == Adj(graph, node)[1]
                    edge_data == get_edge_data(graph, node, neighbor)
                IN  IF "weight" \notin DOMAIN edge_data
                    THEN UNCHANGED <<graph, changed>>
                    ELSE IF edge_data["weight"] < min_path_length
                    THEN /\ graph' = RemoveNode(graph, node)
                         /\ changed' = TRUE
                    ELSE UNCHANGED <<graph, changed>>
           ELSE UNCHANGED <<graph, changed>>
    /\ node_idx' = node_idx + 1
    /\ UNCHANGED <<pc, err, entry, walkerVars, eulerVars, buildVars, callVars, distance_threshold, min_path_length, nodes>>

\* prune_graph: the for loop is exhausted.
PruneForEnd ==
    /\ pc = "prune_for"
    /\ node_idx > Len(nodes)
    /\ pc' = "prune_while"
    /\ UNCHANGED <<err, graph, entry, walkerVars, eulerVars, builderVars, buildVars, callVars>>

-----------------------------------------------------------------------------
(* GraphBuilder.build_graph *)

\* The pixels of the image: skeleton.shape is 3 rows by 7 columns.
Grid == (0..2) \X (0..6)

\* The (dy, dx) of _get_neighbors in the order of its two loops.
Offsets ==
    << <<-1, -1>>, <<-1, 0>>, <<-1, 1>>, <<0, -1>>, <<0, 1>>, <<1, -1>>, <<1, 0>>, <<1, 1>> >>

\* GraphBuilder._get_neighbors
_get_neighbors(skel, p) ==
    LET cand == [i \in 1..Len(Offsets) |-> <<p[1] + Offsets[i][1], p[2] + Offsets[i][2]>>]
    IN  SelectSeq(cand, LAMBDA q : q \in Grid /\ q \in skel)

\* build_graph lines 24-31
junctions(skel) == {p \in skel : Len(_get_neighbors(skel, p)) > 2}

\* build_graph without the test for endpoints: no pixel is an endpoint.
endpoints_none(skel) == {}

endpoints(skel) == {p \in skel : Len(_get_neighbors(skel, p)) = 1}

\* The orders in which the elements of the set S can be iterated.
RECURSIVE Orders(_)
Orders(S) ==
    IF S = {} THEN {<<>>}
    ELSE UNION {{<<x>> \o rest : rest \in Orders(S \ {x})} : x \in S}

\* build_graph lines 56-78: the walk from current until a node or a dead
\* end; the chain, the pixel reached and visited_pixels after it.
RECURSIVE Trace(_, _, _, _, _, _)
Trace(skel, node_set, chain, current, prev, visited) ==
    IF current \in node_set
    THEN [path |-> chain, current |-> current, visited |-> visited]
    ELSE LET neighbors  == _get_neighbors(skel, current)
             next_steps == SelectSeq(neighbors, LAMBDA n : n # prev)
         IN  IF Len(next_steps) = 0
             THEN [path |-> chain, current |-> current, visited |-> visited \cup {current}]
             ELSE Trace(skel, node_set, Append(chain, next_steps[1]), next_steps[1],
                        current, visited \cup {current})

\* build_graph lines 50-88 for one node: the graph and visited_pixels after
\* the loop over start_neighbors.
TraceFrom(skel, node_set, node, g, visited) ==
    LET start_neighbors == _get_neighbors(skel, node)
        F[i \in 0..Len(start_neighbors)] ==
            IF i = 0 THEN [graph |-> g, visited |-> visited]
            ELSE LET before   == F[i - 1]
                     neighbor == start_neighbors[i]
                 IN  IF neighbor \in before.visited THEN before
                     ELSE LET t == Trace(skel, node_set, <<node, neighbor>>, neighbor,
                                         node, before.visited)
                          IN  IF t.current \in node_set
                              THEN [graph   |-> AddEdge(before.graph, node, t.current,
                                                        [weight |-> Len(t.path),
                                                         path   |-> t.path,
                                                         type   |-> "none"]),
                                    visited |-> t.visited]
                              ELSE [graph |-> before.graph, visited |-> t.visited]
    IN  F[Len(start_neighbors)]

\* builder.build_graph() up to the loop that traces the edges: the nodes
\* are found and added in the order the set all_nodes is iterated; a mask
\* with pixels and no junction and no endpoint gets one arbitrary pixel.
BuildGraph ==
    /\ pc = "idle"
    /\ entry = "none"
    /\ entry' = "build_graph"
    /\ \E anchor \in (IF junctions(skeleton) = {} /\ endpoints(skeleton) = {}
                          /\ skeleton # {}
                       THEN {{p} : p \in skeleton} ELSE {{}}) :
          \E order \in Orders(junctions(skeleton) \cup endpoints(skeleton) \cup anchor) :
              /\ all_nodes' = order
              /\ graph' = [graph EXCEPT !.nodes = graph.nodes \o order]
    /\ visited_pixels' = {}
    /\ trace_idx' = 1
    /\ pc' = "trace"
    /\ UNCHANGED <<err, skeleton, walkerVars, eulerVars, builderVars, callVars>>

\* build_graph: the body of "for node in all_nodes" (line 48) for one node.
BuildTrace ==
    /\ pc = "trace"
    /\ trace_idx <= Len(all_nodes)
    /\ LET r == TraceFrom(skeleton, SeqToSet(all_nodes), all_nodes[trace_idx], graph,
                          visited_pixels)
       IN  /\ graph' = r.graph
           /\ visited_pixels' = r.visited
    /\ trace_idx' = trace_idx + 1
    /\ UNCHANGED <<pc, err, entry, skeleton, all_nodes, walkerVars, eulerVars, builderVars,
                   callVars>>

\* build_graph: return self.graph
BuildReturn ==
    /\ pc = "trace"
    /\ trace_idx > Len(all_nodes)
    /\ pc' = "built"
    /\ UNCHANGED <<err, graph, entry, walkerVars, eulerVars, builderVars, buildVars, callVars>>

-----------------------------------------------------------------------------
(* Initial graphs *)

\* The add_edge calls an initial graph is built from: the endpoints and the
\* weight; the chain runs from the first endpoint to the second.
EdgeChoices(weights) ==
    {c \in Positions \X Positions \X weights : ~TupleGT(c[1], c[2])}

EdgeData(c) == [weight |-> c[3], path |-> <<c[1], c[2]>>, type |-> "none"]

\* The graph after the add_edge calls in calls.
GraphOf(calls) ==
    LET F[i \in 0..Len(calls)] ==
            IF i = 0 THEN EmptyGraph
            ELSE AddEdge(F[i - 1], calls[i][1], calls[i][2], EdgeData(calls[i]))
    IN  F[Len(calls)]

CallSeqs(weights) == UNION {[1..n -> EdgeChoices(weights)] : n \in 0..MaxEdges}

EulerIdle ==
    /\ heap = <<>>
    /\ finder = 0
    /\ last = [op |-> "none"]

BuilderIdle ==
    /\ distance_threshold = 0
    /\ min_path_length = 0
    /\ changed = FALSE
    /\ nodes = <<>>
    /\ node_idx = 0
    /\ skeleton = {}
    /\ all_nodes = <<>>
    /\ visited_pixels = {}
    /\ trace_idx = 0

WalkerIdle ==
    /\ visited_edges = {}
    /\ num_edges = 0
    /\ tour = <<>>
    /\ path = <<>>
    /\ curr = None
    /\ curr_vec = None
    /\ ret = "initial"
    /\ splice_idx = -1
    /\ full_pixels = <<>>
    /\ again = FALSE
    /\ first_pixels = <<>>

-----------------------------------------------------------------------------
(* The walker on every initial graph, and the facade on every initial graph *)

InitWalk ==
    /\ pc = "idle"
    /\ err = "none"
    /\ entry = "none"
    /\ \E calls \in CallSeqs({2}) : graph = GraphOf(calls)
    /\ WalkerIdle
    /\ EulerIdle
    /\ BuilderIdle

NextWalk ==
    \/ FindPath
    \/ GreedyStep
    \/ GreedyReturn
    \/ SpliceSearch
    \/ Assemble

SpecWalk == InitWalk /\ [][NextWalk]_vars

NextGenerate ==
    \/ GeneratePath
    \/ GreedyStep
    \/ GreedyReturn
    \/ SpliceSearch
    \/ Assemble

SpecGenerate == InitWalk /\ [][NextGenerate]_vars

\* The walker on graphs that may have a node without edges: the graph gets
\* at most one add_node call before its add_edge calls.
InitWalkAny ==
    /\ pc = "idle"
    /\ err = "none"
    /\ entry = "none"
    /\ \E calls \in CallSeqs({2}), first \in {<<>>} \cup {<<p>> : p \in Positions} :
          /\ Len(calls) < MaxEdges
          /\ LET g == GraphOf(calls)
             IN  graph = [g EXCEPT !.nodes = Dedup(first \o g.nodes)]
    /\ WalkerIdle
    /\ EulerIdle
    /\ BuilderIdle

SpecWalkAny == InitWalkAny /\ [][NextWalk]_vars

\* Further traversals on a walker whose find_path has returned.
NextRewalk ==
    \/ FindPath
    \/ GreedyStep
    \/ GreedyReturn
    \/ SpliceSearch
    \/ Assemble
    \/ FindPathAgain
    \/ GreedyWalkCall

SpecRewalk == InitWalk /\ [][NextRewalk]_vars

-----------------------------------------------------------------------------
(* The transformer on every initial graph; heap[1] is the caller's graph   *)
(* object and graph keeps its contents as they were when it was passed.    *)

InitEuler ==
    /\ pc = "idle"
    /\ err = "none"
    /\ entry = "none"
    /\ \E calls \in CallSeqs({2}) : graph = GraphOf(calls)
    /\ heap = <<graph>>
    /\ finder = 0
    /\ last = [op |-> "none"]
    /\ WalkerIdle
    /\ BuilderIdle

NextEuler ==
    \/ Construct
    \/ CountOddNodes
    \/ Analyze
    \/ MakeEulerian

SpecEuler == InitEuler /\ [][NextEuler]_vars

-----------------------------------------------------------------------------
(* The refinements of the builder on every initial graph *)

InitMerge ==
    /\ pc = "idle"
    /\ err = "none"
    /\ entry = "none"
    /\ \E calls \in CallSeqs({2}) : graph = GraphOf(calls)
    /\ WalkerIdle
    /\ EulerIdle
    /\ BuilderIdle

NextMerge ==
    \/ MergeCloseNodes
    \/ MergeFuse
    \/ MergeReturn

SpecMerge == InitMerge /\ [][NextMerge]_vars

\* The weights of the edges pruned: short chains and long ones.
PruneWeights == {2, 6}

InitPrune ==
    /\ pc = "idle"
    /\ err = "none"
    /\ entry = "none"
    /\ \E calls \in CallSeqs(PruneWeights) : Len(calls) < MaxEdges /\ graph = GraphOf(calls)
    /\ WalkerIdle
    /\ EulerIdle
    /\ BuilderIdle

NextPrune ==
    \/ PruneGraph
    \/ PruneWhile
    \/ PruneNode
    \/ PruneForEnd

SpecPrune == InitPrune /\ [][NextPrune]_vars

-----------------------------------------------------------------------------
(* build_graph on every mask of a window of the image and on a stroke *)

\* The masks are the sets of pixels of the top left 2 by 3 window ...
Window == (0..1) \X (0..2)

\* ... and a stroke with two forks two pixels apart: the forks (1,2) and
\* (1,4) are joined through (1,3), and each has two arms of two pixels.
DoubleFork ==
    {<<1, 2>>, <<1, 3>>, <<1, 4>>,
     <<0, 1>>, <<0, 0>>, <<2, 1>>, <<2, 0>>,
     <<0, 5>>, <<0, 6>>, <<2, 5>>, <<2, 6>>}

\* A GraphBuilder just constructed on one of the masks.
BuilderOn(masks) ==
    /\ pc = "idle"
    /\ err = "none"
    /\ entry = "none"
    /\ graph = EmptyGraph
    /\ skeleton \in masks
    /\ all_nodes = <<>>
    /\ visited_pixels = {}
    /\ trace_idx = 0
    /\ distance_threshold = 0
    /\ min_path_length = 0
    /\ changed = FALSE
    /\ nodes = <<>>
    /\ node_idx = 0
    /\ WalkerIdle
    /\ EulerIdle

InitBuild == BuilderOn((SUBSET Window) \cup {DoubleFork})

NextBuild ==
    \/ BuildGraph
    \/ BuildTrace
    \/ BuildReturn

SpecBuild == InitBuild /\ [][NextBuild]_vars

-----------------------------------------------------------------------------
(* The pipeline of process_image.py on every mask of the top left 2 by 2    *)
(* corner and on the stroke: build_graph, optionally merge_close_nodes and  *)
(* prune_graph, make_eulerian and generate_path.  entry names the last      *)
(* operation called.  The script's merge threshold is 2.1 pixels, its       *)
(* min_path_length 5, and make_eulerian is called with                      *)
(* force_double_wall=False.                                                 *)

Corner == (0..1) \X (0..1)

InitPipeline == BuilderOn((SUBSET Corner) \cup {DoubleFork})

\* A method of the builder returns to the script; G = builder.graph is the
\* object heap[1].
BuilderReturn ==
    /\ pc \in {"built", "merged", "pruned"}
    /\ pc' = "idle"
    /\ heap' = <<graph>>
    /\ UNCHANGED <<err, graph, entry, finder, last, walkerVars, builderVars, buildVars,
                   callVars>>

\* G_final = euler.make_eulerian(...); generator = PathGenerator(G_final)
PathGeneratorInit ==
    /\ pc = "finder"
    /\ last.op = "make_eulerian"
    /\ graph' = heap[finder]
    /\ entry' = "PathGenerator"
    /\ pc' = "idle"
    /\ UNCHANGED <<err, eulerVars, walkerVars, builderVars, buildVars, callVars>>

NextPipeline ==
    \/ BuildGraph
    \/ BuildTrace
    \/ BuildReturn
    \/ BuilderReturn
    \/ (entry = "build_graph" /\ MergeCloseNodes /\ distance_threshold' = 21)
    \/ MergeFuse
    \/ MergeReturn
    \/ (entry \in {"build_graph", "merge_close_nodes"} /\ PruneGraph /\ min_path_length' = 5)
    \/ PruneWhile
    \/ PruneNode
    \/ PruneForEnd
    \/ (entry \in {"build_graph", "merge_close_nodes", "prune_graph"} /\ Construct)
    \/ (MakeEulerian /\ ~last'.force)
    \/ PathGeneratorInit
    \/ (entry = "PathGenerator" /\ GeneratePath)
    \/ GreedyStep
    \/ GreedyReturn
    \/ SpliceSearch
    \/ Assemble

SpecPipeline == InitPipeline /\ [][NextPipeline]_vars

-----------------------------------------------------------------------------
(* Notions the properties are stated in, taken from the edge list alone *)

EdgeId(e) == <<e.a, e.b, e.key>>

EdgeIds(g) == {EdgeId(g.edges[i]) : i \in 1..Len(g.edges)}

\* The number of edge ends at n.
EndCount(g, n) ==
    Cardinality({i \in 1..Len(g.edges) : g.edges[i].a = n})
        + Cardinality({i \in 1..Len(g.edges) : g.edges[i].b = n})

OddSet(g) == {n \in SeqToSet(g.nodes) : EndCount(g, n) % 2 = 1}

\* Nodes joined by an edge, and the nodes joined to n by a chain of edges.
Joined(g, m, n) == \E i \in 1..Len(g.edges) : {g.edges[i].a, g.edges[i].b} = {m, n}

ComponentOf(g, n) ==
    LET N == SeqToSet(g.nodes)
        C[k \in 0..Cardinality(N)] ==
            IF k = 0 THEN {n}
            ELSE LET near == C[k - 1]
                 IN  near \cup {m \in N : \E x \in near : Joined(g, x, m)}
    IN  C[Cardinality(N)]

OneComponent(g) == \A n \in SeqToSet(g.nodes) : ComponentOf(g, n) = SeqToSet(g.nodes)

\* A connected multigraph with at least one edge, all degrees even or
\* exactly two of them odd.
Traversable(g) ==
    /\ Len(g.edges) >= 1
    /\ OneComponent(g)
    /\ Cardinality(OddSet(g)) \in {0, 2}

SegmentId(seg) == IF TupleGT(seg.u, seg.v) THEN <<seg.v, seg.u, seg.key>>
                  ELSE <<seg.u, seg.v, seg.key>>

TourIds(t) == {SegmentId(t[i]) : i \in 1..Len(t)}

-----------------------------------------------------------------------------
(* Properties *)

\* C1: when find_path returns on a connected Eulerian or semi-Eulerian
\* multigraph with E >= 1 edges, the tour holds every edge identity
\* (node pair plus key) exactly once and the visited-edge set has E members.
C1_TourIsBijection ==
    (pc = "done" /\ Traversable(graph)) =>
        /\ Len(tour) = Len(graph.edges)
        /\ Cardinality(TourIds(tour)) = Len(tour)
        /\ TourIds(tour) = EdgeIds(graph)
        /\ Cardinality(visited_edges) = Len(graph.edges)
        /\ visited_edges = EdgeIds(graph)

\* C1 happens: a full tour of a graph with parallel edges that needed a splice.
C1_Witness ==
    /\ pc = "done"
    /\ Traversable(graph)
    /\ ret = "sub"
    /\ Len(graph.edges) > Cardinality({<<graph.edges[i].a, graph.edges[i].b>> : i \in 1..Len(graph.edges)})
    /\ TourIds(tour) = EdgeIds(graph)
    /\ Len(tour) = Len(graph.edges)

\* C10: on a connected multigraph with at least one edge the finished tour
\* returns to its start node when every degree is even, and runs from one
\* odd-degree node to the other when exactly two degrees are odd.
C10_TourEnds ==
    (pc = "done" /\ Traversable(graph)) =>
        /\ Len(tour) >= 1
        /\ Cardinality(OddSet(graph)) = 0 => tour[1].u = tour[Len(tour)].v
        /\ Cardinality(OddSet(graph)) = 2 =>
              {tour[1].u, tour[Len(tour)].v} = OddSet(graph)

\* C10 happens: an open tour that was spliced at its very first node.
C10_Witness ==
    /\ pc = "done"
    /\ Traversable(graph)
    /\ Cardinality(OddSet(graph)) = 2
    /\ ret = "sub"
    /\ splice_idx = 0
    /\ {tour[1].u, tour[Len(tour)].v} = OddSet(graph)

\* C10 happens also for a circuit that needed a splice.
C10_WitnessCircuit ==
    /\ pc = "done"
    /\ Traversable(graph)
    /\ Cardinality(OddSet(graph)) = 0
    /\ ret = "sub"
    /\ tour[1].u = tour[Len(tour)].v

C4_CallerGraphUntouched ==
    finder # 0 =>
        /\ heap[1] = graph
        /\ SeqToSet(graph.nodes) \subseteq SeqToSet(heap[finder].nodes)
        /\ SeqToSet(graph.edges) \subseteq SeqToSet(heap[finder].edges)

\* C4 happens: the transformer's graph was doubled and the caller's was not.
C4_Witness ==
    /\ finder # 0
    /\ last.op = "make_eulerian"
    /\ Len(heap[finder].edges) = 2 * Len(graph.edges)
    /\ Len(graph.edges) >= 1
    /\ heap[1] = graph

ShortSpur(g, n, m) ==
    /\ EndCount(g, n) = 1
    /\ \E i \in 1..Len(g.edges) : Incident(g.edges[i], n) /\ g.edges[i].data.weight < m

\* C6: when prune_graph returns no node of degree 1 with a sole edge lighter
\* than min_path_length is left, and every node it removed was such a node
\* when it was removed.
C6_PruneReachesFixpoint ==
    [][/\ pc' = "pruned" =>
             \A n \in SeqToSet(graph'.nodes) : ~ShortSpur(graph', n, min_path_length')
       /\ (pc = "prune_for" /\ graph' # graph) =>
             \E n \in SeqToSet(graph.nodes) :
                /\ ShortSpur(graph, n, min_path_length)
                /\ graph' = RemoveNode(graph, n)]_vars

\* An edge whose end positions are nearer than the threshold.
Triggering(g, threshold) ==
    \E i \in 1..Len(g.edges) : DistBelow(g.edges[i].a, g.edges[i].b, threshold)

\* C7: an iteration of merge_close_nodes that finds a triggering edge (one
\* with both ends at the same node included) and runs to its end leaves
\* strictly fewer nodes and no more edges.
C7_FusionShrinksGraph ==
    [][(pc = "merge" /\ Triggering(graph, distance_threshold) /\ pc' = "merge") =>
          /\ Len(graph'.nodes) < Len(graph.nodes)
          /\ Len(graph'.edges) <= Len(graph.edges)]_vars

\* The ends and the data of edge e once node v has become node u.
FusedEdge(e, u, v) ==
    [ends |-> {IF e.a = v THEN u ELSE e.a, IF e.b = v THEN u ELSE e.b}, data |-> e.data]

\* C8: a fusion of two nodes u and v drops the triggering edge and nothing
\* else: every other edge, the other edges between u and v included, is
\* there afterwards with its data, at the fused node if it was at u or v,
\* and every node but v is still there.
C8_FusionDropsOnlyTrigger ==
    [][(/\ pc = "merge"
        /\ Triggering(graph, distance_threshold)
        /\ CloseEdges(graph, distance_threshold)[1].u # CloseEdges(graph, distance_threshold)[1].v) =>
          LET t    == CloseEdges(graph, distance_threshold)[1]
              kept == SelectSeq(graph.edges, LAMBDA e : EdgeId(e) # EdgeId(EdgeRecord(t)))
              sigs == {FusedEdge(kept[i], t.u, t.v) : i \in 1..Len(kept)}
                          \cup {FusedEdge(graph'.edges[i], t.u, t.v) : i \in 1..Len(graph'.edges)}
          IN  /\ Len(graph'.edges) = Len(graph.edges) - 1
              /\ \A sig \in sigs :
                    Cardinality({i \in 1..Len(kept) : FusedEdge(kept[i], t.u, t.v) = sig})
                        = Cardinality({i \in 1..Len(graph'.edges) :
                                          FusedEdge(graph'.edges[i], t.u, t.v) = sig})
              /\ SeqToSet(graph'.nodes) = SeqToSet(graph.nodes) \ {t.v}]_vars

\* C9: merge_close_nodes raises nothing, and when it has returned no edge
\* has its two end positions nearer than distance_threshold.
C9_MergeReturnsClean ==
    entry = "merge_close_nodes" =>
        /\ err = "none"
        /\ pc # "raised"
        /\ pc = "merged" => ~Triggering(graph, distance_threshold)
-----------------------------------------------------------------------------
\* C11: the visited-edge markers are scoped to one traversal call: on a walker
\* whose find_path has returned, a second find_path returns the same pixel
\* path as the first, and a _greedy_walk from a node with incident edges
\* returns a non-empty walk.
C11_TraversalStartsFresh ==
    /\ (again /\ pc = "done") => full_pixels = first_pixels
    /\ (again /\ pc = "returned") => Len(path) > 0

-----------------------------------------------------------------------------
(* Notions of the mask, taken from the pixel set alone *)

\* p and q are the same cell or 8-connected neighbours.
Near(p, q) ==
    /\ p[1] - q[1] \in {-1, 0, 1}
    /\ p[2] - q[2] \in {-1, 0, 1}

\* The pixels of S joined to p by 8-connected steps inside S.
PixelComponent(S, p) ==
    LET C[k \in 0..Cardinality(S)] ==
            IF k = 0 THEN {p}
            ELSE LET near == C[k - 1]
                 IN  near \cup {q \in S : \E r \in near : Near(q, r)}
    IN  C[Cardinality(S)]

\* The mask is one connected component.
OneMaskComponent(S) == S # {} /\ \A p \in S : PixelComponent(S, p) = S

\* Every two consecutive pixels of the sequence are 8-connected neighbours.
Continuous(pixels) == \A i \in 1..(Len(pixels) - 1) : Near(pixels[i], pixels[i + 1])

\* C12: for a mask of one connected component, the pixel sequence that the
\* pipeline (build_graph, optional merge_close_nodes and prune_graph,
\* make_eulerian, generate_path) returns is one continuous stroke: every two
\* consecutive pixels are 8-connected neighbours.
C12_StrokeIsContinuous ==
    (entry = "generate_path" /\ pc = "done" /\ OneMaskComponent(skeleton)) =>
        Continuous(full_pixels)

\* C13: an empty mask never makes the core fail: build_graph returns a graph
\* without nodes and edges, and make_eulerian followed by generate_path
\* returns an empty pixel path without raising.
C13_EmptyMaskNoError ==
    skeleton = {} =>
        /\ err = "none"
        /\ pc # "raised"
        /\ pc = "built" => graph = EmptyGraph
        /\ (entry = "generate_path" /\ pc = "done") => full_pixels = <<>>

\* C14: find_path on a non-empty multigraph that is not one connected
\* component stops its splice loop and returns the partial tour without
\* raising, whichever node the walk started from.
C14_FindPathNeverRaises ==
    (entry = "find_path" /\ Len(graph.nodes) > 0) => (pc # "raised" /\ err = "none")

\* The pixel chains of the mask between node pixels: the connected groups
\* of pixels that are not nodes.
ChainInteriors(skel, node_set) ==
    {PixelComponent(skel \ node_set, p) : p \in skel \ node_set}

\* The number of distinct chains of the mask that join the nodes m and n:
\* the groups of non-node pixels that touch exactly m and n, and the chain
\* of two pixels when m and n are neighbours.
ChainsBetween(skel, node_set, m, n) ==
    Cardinality({C \in ChainInteriors(skel, node_set) :
                    {q \in node_set : \E r \in C : Near(q, r)} = {m, n}})
    + (IF Near(m, n) THEN 1 ELSE 0)

\* C15: build_graph records each pixel chain between node pixels as exactly
\* one edge: for any two distinct nodes the number of edges between them is
\* the number of distinct chains joining them in the mask.
C15_OneEdgePerChain ==
    pc = "built" =>
        \A m, n \in SeqToSet(graph.nodes) :
            m # n => Len(KeyDict(graph, m, n)) = ChainsBetween(skeleton, SeqToSet(graph.nodes), m, n)

\* The pixels that occur in the chain of some edge of g.
DrawnPixels(g) == UNION {SeqToSet(g.edges[i].data.path) : i \in 1..Len(g.edges)}

\* C17: for a connected mask with at least two foreground pixels, after
\* build_graph every foreground pixel occurs in the pixel chain of at least
\* one edge of the graph.
C17_EveryPixelOnAnEdge ==
    (pc = "built" /\ OneMaskComponent(skeleton) /\ Cardinality(skeleton) >= 2) =>
        skeleton \subseteq DrawnPixels(graph)

\* A pure closed loop (no junction, no endpoint) has been built: its single
\* edge carries every pixel of the loop.
C17_Witness ==
    /\ pc = "built"
    /\ OneMaskComponent(skeleton)
    /\ Cardinality(skeleton) >= 3
    /\ junctions(skeleton) = {} /\ endpoints(skeleton) = {}
    /\ Len(graph.edges) = 1
    /\ skeleton \subseteq DrawnPixels(graph)

\* The stroke with two forks has been built: five chains with interior
\* pixels, every pixel on one of them.
C17_WitnessStroke ==
    /\ pc = "built"
    /\ skeleton = DoubleFork
    /\ Len(graph.edges) = 5
    /\ skeleton \subseteq DrawnPixels(graph)

-----------------------------------------------------------------------------
(* The greedy choice, stated on directions alone *)

\* The outgoing direction of a candidate: its chain taken from the current
\* node u, from its first pixel to the pixel NumPoints further (or its last).
Outgoing(o, u) ==
    LET raw   == IF o.data.path = NoPath THEN <<u, o.nbr>> ELSE o.data.path
        chain == IF raw[1] = u THEN raw ELSE Reverse(raw)
        far   == IF Len(chain) - 1 < NumPoints THEN Len(chain) ELSE NumPoints + 1
    IN  <<chain[far][1] - chain[1][1], chain[far][2] - chain[1][2]>>

\* The cosine between the incoming direction vec and the direction a is
\* strictly larger than the one between vec and b (a direction of length 0
\* counts as cosine 0).
Straighter(vec, a, b) ==
    LET na == IF a = <<0, 0>> THEN 0 ELSE vec[1] * a[1] + vec[2] * a[2]
        nb == IF b = <<0, 0>> THEN 0 ELSE vec[1] * b[1] + vec[2] * b[2]
        la == IF a = <<0, 0>> THEN 1 ELSE a[1] * a[1] + a[2] * a[2]
        lb == IF b = <<0, 0>> THEN 1 ELSE b[1] * b[1] + b[2] * b[2]
    IN  \/ na >= 0 /\ nb < 0
        \/ na >= 0 /\ nb >= 0 /\ na * na * lb > nb * nb * la
        \/ na < 0 /\ nb < 0 /\ na * na * lb < nb * nb * la

\* The candidates of the step that appended the last segment of p: the
\* unvisited edges at its from-node before that segment was marked.
CandidatesBefore(p) ==
    UnvisitedOptions(graph, visited_edges \ {SegmentId(p[Len(p)])}, p[Len(p)].u)

\* The position among the candidates of the edge that was chosen.
ChosenAmong(options, seg) ==
    CHOOSE i \in 1..Len(options) : options[i].nbr = seg.v /\ options[i].key = seg.key

\* C16: every step of _greedy_walk takes a candidate whose outgoing direction
\* has the largest cosine with the incoming direction among the unvisited
\* incident edges, the first enumerated one among equals; without an
\* incoming direction it takes the first enumerated candidate.
C16_GreedyTakesStraightest ==
    [][(pc = "walk" /\ pc' = "walk" /\ Len(path') = Len(path) + 1) =>
          LET options == UnvisitedOptions(graph, visited_edges, curr)
              seg     == path'[Len(path')]
              i       == ChosenAmong(options, seg)
          IN  /\ seg.u = curr
              /\ \E k \in 1..Len(options) : options[k].nbr = seg.v /\ options[k].key = seg.key
              /\ IF curr_vec = None THEN i = 1
                 ELSE /\ \A j \in 1..Len(options) :
                            ~Straighter(curr_vec, Outgoing(options[j], curr),
                                        Outgoing(options[i], curr))
                      /\ \A j \in 1..(i - 1) :
                            Straighter(curr_vec, Outgoing(options[i], curr),
                                       Outgoing(options[j], curr))]_vars

\* C16 happens: a step with an incoming direction and several candidates
\* took a candidate that was not the first enumerated.
C16_Witness ==
    /\ pc = "walk"
    /\ Len(path) >= 2
    /\ LET options == CandidatesBefore(path)
           i       == ChosenAmong(options, path[Len(path)])
       IN  /\ Len(options) >= 2
           /\ i > 1

\* C16 happens on a tie: the first of two candidates of equal cosine was taken.
C16_WitnessTie ==
    /\ pc = "walk"
    /\ Len(path) >= 2
    /\ LET options == CandidatesBefore(path)
           i       == ChosenAmong(options, path[Len(path)])
           u       == path[Len(path)].u
           vec     == Neg(get_path_tangent(Reverse(path[Len(path) - 1].pixels)))
       IN  \E j \in (i + 1)..Len(options) :
              /\ ~Straighter(vec, Outgoing(options[i], u), Outgoing(options[j], u))
              /\ ~Straighter(vec, Outgoing(options[j], u), Outgoing(options[i], u))

-----------------------------------------------------------------------------
\* C18: on a connected Eulerian or semi-Eulerian graph the tour kept by
\* find_path is a single trail after the initial walk and after every
\* splice: the to-node of each segment is the from-node of the next.
C18_TourIsTrail ==
    (entry = "find_path" /\ pc \in {"splice", "assemble", "done"} /\ Traversable(graph)) =>
        \A i \in 1..(Len(tour) - 1) : tour[i].v = tour[i + 1].u

\* C18 happens: a sub-tour has just been spliced strictly inside the tour.
C18_Witness ==
    /\ entry = "find_path"
    /\ pc = "splice"
    /\ Traversable(graph)
    /\ ret = "sub"
    /\ Len(path) > 0
    /\ splice_idx >= 1
    /\ splice_idx + Len(path) < Len(tour)
    /\ SubSeq(tour, splice_idx + 1, splice_idx + Len(path)) = path
    /\ \A i \in 1..(Len(tour) - 1) : tour[i].v = tour[i + 1].u

====
